---- MODULE Spec2Model ----
(***************************************************************************)
(* CareerTech (src/app.py): the free AI chat gate.                         *)
(*                                                                         *)
(* State: the three tables the handlers touch (users, ai_usage,            *)
(* subscriptions), the GROQ_API_KEY environment setting, the browser's     *)
(* Flask session cookie, and for every browser tab the position and the    *)
(* locals of the request it has in flight.  Flask's session is the signed  *)
(* cookie: a request works on the copy it received and the response        *)
(* replaces the browser's cookie with it.                                  *)
(*                                                                         *)
(* A handler that talks to nobody between its first and its last line is   *)
(* one action.  chatbot() is cut before the chat-completion call and       *)
(* end_chatbot() between its query and its commit: these are the points    *)
(* where another request can run in a threaded deployment.                 *)
(***************************************************************************)
EXTENDS Integers, Sequences, FiniteSets, TLC

VARIABLES
    users,          \* table "users": rows [id, name, email, password]
    ai_usage,       \* table "ai_usage": rows [id, user_id, ai_used]
    subscriptions,  \* table "subscriptions": rows [id, user_id, active]
    GROQ_API_KEY,   \* whether the environment sets GROQ_API_KEY
    session,        \* the browser's session cookie, a dict
    pc,             \* per tab: "idle", "calling" (chatbot), "read" (end_chatbot)
    local,          \* per tab: the locals of the request in flight
    last,           \* the step taken last and what it answered
    end_called      \* user ids for which end_chatbot() went past its login check

vars == <<users, ai_usage, subscriptions, GROQ_API_KEY, session, pc, local,
          last, end_called>>

db == <<users, ai_usage, subscriptions>>

-----------------------------------------------------------------------------
(* Bounds and input sets *)

MaxHistory == 3

Tabs == {1, 2}
Worker == {1}
Emails == {"a@x", "b@x"}
SignupPasswords == {"", "pw"}
LoginPasswords == {"pw", "bad"}
Messages == {<<>>, <<" ">>, <<" ", "a", " ">>}
Methods == {"GET", "POST"}

-----------------------------------------------------------------------------
(* dict-like session *)

EmptyDict == [k \in {} |-> 0]

Has(d, k) == k \in DOMAIN d

Get(d, k, default) == IF k \in DOMAIN d THEN d[k] ELSE default

Set(d, k, v) == [x \in (DOMAIN d) \cup {k} |-> IF x = k THEN v ELSE d[x]]

Pop(d, k) == [x \in (DOMAIN d) \ {k} |-> d[x]]

-----------------------------------------------------------------------------
(* str.strip() on a form value, a sequence of characters *)

RECURSIVE LStrip(_)
LStrip(s) == IF s # <<>> /\ Head(s) = " " THEN LStrip(Tail(s)) ELSE s

RECURSIVE RStrip(_)
RStrip(s) == IF s # <<>> /\ s[Len(s)] = " "
             THEN RStrip(SubSeq(s, 1, Len(s) - 1)) ELSE s

Strip(s) == RStrip(LStrip(s))

-----------------------------------------------------------------------------
(* Tables *)

NextId(table) ==
    IF table = {} THEN 1
    ELSE (CHOOSE r \in table : \A q \in table : q.id <= r.id).id + 1

\* Query.first(): no row, or one row of the result (the lowest id)
First(rows) ==
    IF rows = {} THEN {}
    ELSE {CHOOSE r \in rows : \A q \in rows : r.id <= q.id}

\* as if user_id were declared without unique=True
NoUniqueConstraint(table, user_id) == FALSE

\* Column(..., unique=True) on user_id: the INSERT of a second row fails
UniqueViolation(table, user_id) == \E r \in table : r.user_id = user_id

NameOf(email) == IF email = "a@x" THEN "Asha" ELSE "Bala"

generate_password_hash(password) == <<"pbkdf2:sha256", password>>

check_password_hash(pwhash, password) ==
    /\ pwhash[1] = "pbkdf2:sha256"
    /\ pwhash[2] = password

-----------------------------------------------------------------------------
(* Conversation entries *)

UserEntry(text) == [role |-> "user", content |-> text]
AssistantEntry(text) == [role |-> "assistant", content |-> text]

REFUSAL == AssistantEntry(<<"free chat ended">>)
NOT_CONFIGURED == AssistantEntry(<<"AI is not configured">>)
AI_ERROR == AssistantEntry(<<"AI error">>)
AI_REPLY == AssistantEntry(<<"reply">>)

Resp(op, user_id, status, locked, llm) ==
    [op |-> op, user_id |-> user_id, status |-> status, locked |-> locked,
     llm |-> llm]

NoLocal == [sess |-> EmptyDict, user_id |-> 0, found |-> {}]

-----------------------------------------------------------------------------
Init ==
    /\ users = {}
    /\ ai_usage = {}
    /\ subscriptions = {}
    /\ GROQ_API_KEY \in BOOLEAN
    /\ session = EmptyDict
    /\ pc = [t \in Tabs |-> "idle"]
    /\ local = [t \in Tabs |-> NoLocal]
    /\ last = Resp("none", 0, "none", FALSE, FALSE)
    /\ end_called = {}

-----------------------------------------------------------------------------
(* signup(), POST *)
Signup(t, email, password) ==
    /\ pc[t] = "idle"
    /\ LET name == NameOf(email)
           existing == First({u \in users : u.email = email})
       IN  IF name = "" \/ email = "" \/ password = ""
           THEN /\ users' = users
                /\ last' = Resp("signup", 0, "fields_required", FALSE, FALSE)
           ELSE IF existing # {}
           THEN /\ users' = users
                /\ last' = Resp("signup", 0, "account_exists", FALSE, FALSE)
           ELSE /\ users' = users \cup
                       {[id |-> NextId(users), name |-> name, email |-> email,
                         password |-> generate_password_hash(password)]}
                /\ last' = Resp("signup", 0, "redirect_login", FALSE, FALSE)
    /\ UNCHANGED <<ai_usage, subscriptions, GROQ_API_KEY, session, pc, local,
                   end_called>>

(* login(), POST *)
Login(t, email, password) ==
    /\ pc[t] = "idle"
    /\ LET user == First({u \in users : u.email = email})
           authenticated ==
               \E u \in user : check_password_hash(u.password, password)
       IN  IF authenticated
           THEN LET u == CHOOSE u \in user : TRUE
                IN  /\ session' = Set(Set(Set(Set(session,
                                      "user", u.name),
                                      "user_id", u.id),
                                      "first_time", TRUE),
                                      "ai_history", <<>>)
                    /\ last' = Resp("login", u.id, "redirect_dashboard",
                                    FALSE, FALSE)
           ELSE /\ session' = session
                /\ last' = Resp("login", 0, "invalid_login", FALSE, FALSE)
    /\ UNCHANGED <<db, GROQ_API_KEY, pc, local, end_called>>

(* logout() *)
Logout(t) ==
    /\ pc[t] = "idle"
    /\ session' = EmptyDict
    /\ last' = Resp("logout", 0, "redirect_home", FALSE, FALSE)
    /\ UNCHANGED <<db, GROQ_API_KEY, pc, local, end_called>>

(* user_is_subscribed() *)
user_is_subscribed(user_id) ==
    IF user_id = 0 THEN FALSE
    ELSE \E sub \in First({r \in subscriptions : r.user_id = user_id}) :
             sub.active

\* as if subscribing deleted the user's usage record
SubscribeUnlocks(t, method) ==
    /\ pc[t] = "idle"
    /\ Has(session, "user_id")
    /\ method = "POST"
    /\ ai_usage' = {r \in ai_usage : r.user_id # session["user_id"]}
    /\ last' = Resp("subscribe", session["user_id"], "redirect_dashboard",
                    FALSE, FALSE)
    /\ UNCHANGED <<users, subscriptions, GROQ_API_KEY, session, pc, local,
                   end_called>>

(* subscribe() *)
Subscribe(t, method) ==
    /\ pc[t] = "idle"
    /\ IF ~Has(session, "user_id")
       THEN /\ subscriptions' = subscriptions
            /\ last' = Resp("subscribe", 0, "redirect_login", FALSE, FALSE)
       ELSE LET user_id == session["user_id"]
                sub == First({r \in subscriptions : r.user_id = user_id})
            IN  IF method = "POST"
                THEN /\ subscriptions' =
                            IF sub = {}
                            THEN subscriptions \cup
                                 {[id |-> NextId(subscriptions),
                                   user_id |-> user_id, active |-> TRUE]}
                            ELSE {IF r \in sub THEN [r EXCEPT !.active = TRUE]
                                  ELSE r : r \in subscriptions}
                     /\ last' = Resp("subscribe", user_id,
                                     "redirect_dashboard", FALSE, FALSE)
                ELSE /\ subscriptions' = subscriptions
                     /\ last' = Resp("subscribe", user_id, "page", FALSE,
                                     FALSE)
    /\ UNCHANGED <<users, ai_usage, GROQ_API_KEY, session, pc, local,
                   end_called>>

(* dashboard() *)
Dashboard(t) ==
    /\ pc[t] = "idle"
    /\ IF ~Has(session, "user_id")
       THEN /\ session' = session
            /\ last' = Resp("dashboard", 0, "redirect_login", FALSE, FALSE)
       ELSE LET first_time == Get(session, "first_time", FALSE)
            IN  /\ session' = Pop(session, "first_time")
                /\ last' = Resp("dashboard", session["user_id"],
                                IF first_time THEN "welcome"
                                ELSE "welcome_back", FALSE, FALSE)
    /\ UNCHANGED <<db, GROQ_API_KEY, pc, local, end_called>>

-----------------------------------------------------------------------------
(* chatbot(): the gate check *)

\* session.get("user_id"); 0 stands for None
UserId(sess) == Get(sess, "user_id", 0)

\* as if the query were filter_by(id=user_id)
UsageById(user_id) == First({r \in ai_usage : r.id = user_id})

\* db.query(AiUsage).filter_by(user_id=user_id).first()
Usage(user_id) == First({r \in ai_usage : r.user_id = user_id})

\* bool(usage and usage.ai_used == 1)
Locked(usage) == \E r \in usage : r.ai_used = 1

ChatbotOp(method, reset) ==
    IF reset THEN "chatbot_reset"
    ELSE IF method = "POST" THEN "chatbot_post" ELSE "chatbot_get"

\* session.get("ai_history", []), replaced by [] when it is no list
History(sess) == Get(sess, "ai_history", <<>>)

(* chatbot(): no user id in the session *)
ChatbotNoUser(t, method, reset) ==
    /\ pc[t] = "idle"
    /\ UserId(session) = 0
    /\ last' = Resp(ChatbotOp(method, reset), 0, "redirect_login", FALSE,
                    FALSE)
    /\ UNCHANGED <<db, GROQ_API_KEY, session, pc, local, end_called>>

\* as if the failing query were caught, noted in the conversation and re-raised
ChatbotStorageErrorNoted(t, method, reset) ==
    /\ pc[t] = "idle"
    /\ UserId(session) # 0
    /\ Len(History(session)) + 1 <= MaxHistory
    /\ session' = Set(session, "ai_history",
                      Append(History(session), AI_ERROR))
    /\ last' = Resp(ChatbotOp(method, reset), UserId(session),
                    "storage_error", FALSE, FALSE)
    /\ UNCHANGED <<db, GROQ_API_KEY, pc, local, end_called>>

\* as if the usage query ran before the login check
ChatbotStorageErrorBeforeLogin(t, method, reset) ==
    /\ pc[t] = "idle"
    /\ last' = Resp(ChatbotOp(method, reset), UserId(session),
                    "storage_error", FALSE, FALSE)
    /\ UNCHANGED <<db, GROQ_API_KEY, session, pc, local, end_called>>

(* chatbot(): the usage query raises *)
ChatbotStorageError(t, method, reset) ==
    /\ pc[t] = "idle"
    /\ UserId(session) # 0
    /\ last' = Resp(ChatbotOp(method, reset), UserId(session),
                    "storage_error", FALSE, FALSE)
    /\ UNCHANGED <<db, GROQ_API_KEY, session, pc, local, end_called>>

\* as if "clear chat" also cleared the usage record
ChatbotResetForgets(t, method) ==
    /\ pc[t] = "idle"
    /\ UserId(session) # 0
    /\ LET user_id == UserId(session)
           locked == Locked(Usage(user_id))
       IN  /\ session' = Set(session, "ai_history", <<>>)
           /\ ai_usage' = {r \in ai_usage : r.user_id # user_id}
           /\ last' = Resp(ChatbotOp(method, TRUE), user_id, "page", locked,
                           FALSE)
    /\ UNCHANGED <<users, subscriptions, GROQ_API_KEY, pc, local, end_called>>

\* as if a message posted together with reset=1 were appended after clearing
ChatbotResetThenAppends(t, method) ==
    /\ pc[t] = "idle"
    /\ UserId(session) # 0
    /\ LET user_id == UserId(session)
           locked == Locked(Usage(user_id))
       IN  /\ session' = Set(session, "ai_history",
                             IF method = "POST"
                             THEN <<IF locked THEN REFUSAL
                                    ELSE UserEntry(<<"a">>)>>
                             ELSE <<>>)
           /\ last' = Resp(ChatbotOp(method, TRUE), user_id, "page", locked,
                           FALSE)
    /\ UNCHANGED <<db, GROQ_API_KEY, pc, local, end_called>>

(* chatbot(): ?reset=1, GET or POST *)
ChatbotReset(t, method) ==
    /\ pc[t] = "idle"
    /\ UserId(session) # 0
    /\ LET user_id == UserId(session)
           locked == Locked(Usage(user_id))
       IN  /\ session' = Set(session, "ai_history", <<>>)
           /\ last' = Resp(ChatbotOp(method, TRUE), user_id, "page", locked,
                           FALSE)
    /\ UNCHANGED <<db, GROQ_API_KEY, pc, local, end_called>>

\* as if the gate check were a get-or-create
ChatbotGetCreates(t) ==
    /\ pc[t] = "idle"
    /\ UserId(session) # 0
    /\ LET user_id == UserId(session)
           usage == Usage(user_id)
           locked == Locked(usage)
           history == History(session)
       IN  /\ ai_usage' = IF usage = {}
                          THEN ai_usage \cup {[id |-> NextId(ai_usage),
                                   user_id |-> user_id, ai_used |-> 0]}
                          ELSE ai_usage
           /\ session' = Set(session, "ai_history", history)
           /\ last' = Resp("chatbot_get", user_id, "page", locked, FALSE)
    /\ UNCHANGED <<users, subscriptions, GROQ_API_KEY, pc, local, end_called>>

\* as if the lock were read from the session flag end_chatbot() sets
ChatbotGetBySession(t) ==
    /\ pc[t] = "idle"
    /\ UserId(session) # 0
    /\ LET user_id == UserId(session)
           locked == Get(session, "ai_used", FALSE)
           history == History(session)
       IN  /\ session' = Set(session, "ai_history", history)
           /\ last' = Resp("chatbot_get", user_id, "page", locked, FALSE)
    /\ UNCHANGED <<db, GROQ_API_KEY, pc, local, end_called>>

(* chatbot(): GET *)
ChatbotGet(t) ==
    /\ pc[t] = "idle"
    /\ UserId(session) # 0
    /\ LET user_id == UserId(session)
           locked == Locked(Usage(user_id))
           history == History(session)
       IN  /\ session' = Set(session, "ai_history", history)
           /\ last' = Resp("chatbot_get", user_id, "page", locked, FALSE)
    /\ UNCHANGED <<db, GROQ_API_KEY, pc, local, end_called>>

\* as if the message were appended before the lock is looked at
ChatbotPostLockedEchoes(t, message) ==
    /\ pc[t] = "idle"
    /\ UserId(session) # 0
    /\ LET user_id == UserId(session)
           locked == Locked(Usage(user_id))
           history == History(session)
       IN  /\ locked
           /\ Len(history) + 2 <= MaxHistory
           /\ session' = Set(session, "ai_history",
                  Append(Append(history, UserEntry(Strip(message))), REFUSAL))
           /\ last' = Resp("chatbot_post", user_id, "page", TRUE, FALSE)
    /\ UNCHANGED <<db, GROQ_API_KEY, pc, local, end_called>>

(* chatbot(): POST, locked *)
ChatbotPostLocked(t, message) ==
    /\ pc[t] = "idle"
    /\ UserId(session) # 0
    /\ LET user_id == UserId(session)
           locked == Locked(Usage(user_id))
           history == History(session)
       IN  /\ locked
           /\ Len(history) + 1 <= MaxHistory
           /\ session' = Set(session, "ai_history", Append(history, REFUSAL))
           /\ last' = Resp("chatbot_post", user_id, "page", TRUE, FALSE)
    /\ UNCHANGED <<db, GROQ_API_KEY, pc, local, end_called>>

\* as if the test "if user_msg" were missing
ChatbotPostEmptyAnswered(t, message) ==
    /\ pc[t] = "idle"
    /\ UserId(session) # 0
    /\ LET user_id == UserId(session)
           locked == Locked(Usage(user_id))
           history == History(session)
           user_msg == Strip(message)
       IN  /\ ~locked
           /\ user_msg = <<>>
           /\ Len(history) + 2 <= MaxHistory
           /\ session' = Set(session, "ai_history",
                  Append(Append(history, UserEntry(user_msg)),
                         IF GROQ_API_KEY THEN AI_REPLY ELSE NOT_CONFIGURED))
           /\ last' = Resp("chatbot_post", user_id, "page", FALSE,
                           GROQ_API_KEY)
    /\ UNCHANGED <<db, GROQ_API_KEY, pc, local, end_called>>

(* chatbot(): POST, not locked, the message is empty once stripped *)
ChatbotPostEmpty(t, message) ==
    /\ pc[t] = "idle"
    /\ UserId(session) # 0
    /\ LET user_id == UserId(session)
           locked == Locked(Usage(user_id))
           history == History(session)
           user_msg == Strip(message)
       IN  /\ ~locked
           /\ user_msg = <<>>
           /\ session' = Set(session, "ai_history", history)
           /\ last' = Resp("chatbot_post", user_id, "page", FALSE, FALSE)
    /\ UNCHANGED <<db, GROQ_API_KEY, pc, local, end_called>>

\* as if no assistant entry were appended when there is no client
ChatbotPostNoKeySilent(t, message) ==
    /\ pc[t] = "idle"
    /\ UserId(session) # 0
    /\ LET user_id == UserId(session)
           locked == Locked(Usage(user_id))
           history == History(session)
           user_msg == Strip(message)
       IN  /\ ~locked
           /\ user_msg # <<>>
           /\ ~GROQ_API_KEY
           /\ Len(history) + 2 <= MaxHistory
           /\ session' = Set(session, "ai_history",
                             Append(history, UserEntry(user_msg)))
           /\ last' = Resp("chatbot_post", user_id, "page", FALSE, FALSE)
    /\ UNCHANGED <<db, GROQ_API_KEY, pc, local, end_called>>

(* chatbot(): POST, not locked, get_groq_client() returns None *)
ChatbotPostNoKey(t, message) ==
    /\ pc[t] = "idle"
    /\ UserId(session) # 0
    /\ LET user_id == UserId(session)
           locked == Locked(Usage(user_id))
           history == History(session)
           user_msg == Strip(message)
       IN  /\ ~locked
           /\ user_msg # <<>>
           /\ ~GROQ_API_KEY
           /\ Len(history) + 2 <= MaxHistory
           /\ session' = Set(session, "ai_history",
                  Append(Append(history, UserEntry(user_msg)),
                         NOT_CONFIGURED))
           /\ last' = Resp("chatbot_post", user_id, "page", FALSE, FALSE)
    /\ UNCHANGED <<db, GROQ_API_KEY, pc, local, end_called>>

(* chatbot(): POST, not locked, up to the chat-completion call *)
ChatbotPostCall(t, message) ==
    /\ pc[t] = "idle"
    /\ UserId(session) # 0
    /\ LET user_id == UserId(session)
           usage == Usage(user_id)
           locked == Locked(usage)
           history == History(session)
           user_msg == Strip(message)
       IN  /\ ~locked
           /\ user_msg # <<>>
           /\ GROQ_API_KEY
           /\ Len(history) + 2 <= MaxHistory
           /\ pc' = [pc EXCEPT ![t] = "calling"]
           /\ local' = [local EXCEPT ![t] =
                  [sess |-> Set(session, "ai_history",
                                Append(history, UserEntry(user_msg))),
                   user_id |-> user_id, found |-> usage]]
           /\ last' = Resp("chatbot_call", user_id, "pending", FALSE, FALSE)
    /\ UNCHANGED <<db, GROQ_API_KEY, session, end_called>>

\* as if an answered exchange used up the free chat
ChatbotPostReplyCounts(t, raised) ==
    /\ pc[t] = "calling"
    /\ LET sess == local[t].sess
           user_id == local[t].user_id
           reply == IF raised THEN AI_ERROR ELSE AI_REPLY
       IN  /\ session' = Set(sess, "ai_history",
                             Append(History(sess), reply))
           /\ ai_usage' = IF Usage(user_id) = {}
                          THEN ai_usage \cup {[id |-> NextId(ai_usage),
                                   user_id |-> user_id, ai_used |-> 1]}
                          ELSE ai_usage
           /\ last' = Resp("chatbot_post", user_id, "page", FALSE, TRUE)
    /\ pc' = [pc EXCEPT ![t] = "idle"]
    /\ local' = [local EXCEPT ![t] = NoLocal]
    /\ UNCHANGED <<users, subscriptions, GROQ_API_KEY, end_called>>

\* as if the exception of the completion call left the handler
ChatbotPostReplyPropagates(t, raised) ==
    /\ pc[t] = "calling"
    /\ LET sess == local[t].sess
       IN  IF raised
           THEN /\ session' = session
                /\ last' = Resp("chatbot_post", local[t].user_id, "ai_error",
                                FALSE, TRUE)
           ELSE /\ session' = Set(sess, "ai_history",
                                  Append(History(sess), AI_REPLY))
                /\ last' = Resp("chatbot_post", local[t].user_id, "page",
                                FALSE, TRUE)
    /\ pc' = [pc EXCEPT ![t] = "idle"]
    /\ local' = [local EXCEPT ![t] = NoLocal]
    /\ UNCHANGED <<db, GROQ_API_KEY, end_called>>

(* chatbot(): the chat-completion call, its answer or its exception, and *)
(* the response *)
ChatbotPostReply(t, raised) ==
    /\ pc[t] = "calling"
    /\ LET sess == local[t].sess
           reply == IF raised THEN AI_ERROR ELSE AI_REPLY
       IN  /\ session' = Set(sess, "ai_history",
                             Append(History(sess), reply))
           /\ last' = Resp("chatbot_post", local[t].user_id, "page", FALSE,
                           TRUE)
    /\ pc' = [pc EXCEPT ![t] = "idle"]
    /\ local' = [local EXCEPT ![t] = NoLocal]
    /\ UNCHANGED <<db, GROQ_API_KEY, end_called>>

-----------------------------------------------------------------------------
(* end_chatbot(): no user id in the session *)
EndNoUser(t) ==
    /\ pc[t] = "idle"
    /\ UserId(session) = 0
    /\ last' = Resp("end", 0, "redirect_login", FALSE, FALSE)
    /\ UNCHANGED <<db, GROQ_API_KEY, session, pc, local, end_called>>

(* end_chatbot(): the usage query raises; finally: db.close() *)
EndStorageError(t) ==
    /\ pc[t] = "idle"
    /\ UserId(session) # 0
    /\ end_called' = end_called \cup {UserId(session)}
    /\ last' = Resp("end", UserId(session), "storage_error", FALSE, FALSE)
    /\ UNCHANGED <<db, GROQ_API_KEY, session, pc, local>>

(* end_chatbot(): up to and including the usage query *)
EndRead(t) ==
    /\ pc[t] = "idle"
    /\ UserId(session) # 0
    /\ LET user_id == UserId(session)
       IN  /\ pc' = [pc EXCEPT ![t] = "read"]
           /\ local' = [local EXCEPT ![t] =
                  [sess |-> session, user_id |-> user_id,
                   found |-> Usage(user_id)]]
           /\ end_called' = end_called \cup {user_id}
           /\ last' = Resp("end_read", user_id, "pending", FALSE, FALSE)
    /\ UNCHANGED <<db, GROQ_API_KEY, session>>

\* as if the new row were keyed by its own id
InsertUsageByRowId(table, user_id) ==
    table \cup {[id |-> NextId(table), user_id |-> NextId(table),
                 ai_used |-> 1]}

\* as if the new row were left at the column default
InsertUsageDefault(table, user_id) ==
    table \cup {[id |-> NextId(table), user_id |-> user_id, ai_used |-> 0]}

\* usage = AiUsage(user_id=user_id, ai_used=1); db.add(usage)
InsertUsage(table, user_id) ==
    table \cup {[id |-> NextId(table), user_id |-> user_id, ai_used |-> 1]}

\* as if the update were usage.ai_used += 1
UpdateUsageIncrements(table, found) ==
    {IF \E f \in found : f.id = r.id
     THEN [r EXCEPT !.ai_used = r.ai_used + 1] ELSE r : r \in table}

\* usage.ai_used = 1, on the row the query returned
UpdateUsage(table, found) ==
    {IF \E f \in found : f.id = r.id THEN [r EXCEPT !.ai_used = 1] ELSE r :
        r \in table}

(* end_chatbot(): insert or update, commit, and the response *)
EndCommit(t) ==
    /\ pc[t] = "read"
    /\ LET user_id == local[t].user_id
           found == local[t].found
       IN  IF found = {} /\ UniqueViolation(ai_usage, user_id)
           THEN \* IntegrityError out of db.commit(): the handler ends there
                /\ ai_usage' = ai_usage
                /\ session' = session
                /\ last' = Resp("end", user_id, "integrity_error", FALSE,
                                FALSE)
           ELSE /\ ai_usage' = IF found = {}
                               THEN InsertUsage(ai_usage, user_id)
                               ELSE UpdateUsage(ai_usage, found)
                /\ session' = Set(Set(local[t].sess, "ai_history", <<>>),
                                  "ai_used", TRUE)
                /\ last' = Resp("end", user_id, "redirect_chatbot",
                                found # {}, FALSE)
    /\ pc' = [pc EXCEPT ![t] = "idle"]
    /\ local' = [local EXCEPT ![t] = NoLocal]
    /\ UNCHANGED <<users, subscriptions, GROQ_API_KEY, end_called>>

-----------------------------------------------------------------------------
\* session.get("mock_interview_history", [])
MockHistory(sess) == Get(sess, "mock_interview_history", <<>>)

\* as if the mock interview were also closed by the AI-chat lock
MockInterviewLockedOut(t, method, message, raised) ==
    /\ pc[t] = "idle"
    /\ LET user_id == UserId(session)
           history == MockHistory(session)
           user_msg == Strip(message)
       IN  IF user_id = 0
           THEN /\ session' = session
                /\ last' = Resp("mock", 0, "redirect_login", FALSE, FALSE)
           ELSE IF ~user_is_subscribed(user_id) \/ Locked(Usage(user_id))
           THEN /\ session' = session
                /\ last' = Resp("mock", user_id, "subscribe_to_unlock", TRUE,
                                FALSE)
           ELSE IF method = "POST" /\ user_msg # <<>>
           THEN /\ Len(history) + 2 <= MaxHistory
                /\ session' = Set(session, "mock_interview_history",
                       Append(Append(history, UserEntry(user_msg)),
                              IF ~GROQ_API_KEY THEN NOT_CONFIGURED
                              ELSE IF raised THEN AI_ERROR ELSE AI_REPLY))
                /\ last' = Resp("mock", user_id, "page", FALSE, GROQ_API_KEY)
           ELSE /\ session' = session
                /\ last' = Resp("mock", user_id, "page", FALSE, FALSE)
    /\ UNCHANGED <<db, GROQ_API_KEY, pc, local, end_called>>

(* mock_interview() *)
MockInterview(t, method, message, raised) ==
    /\ pc[t] = "idle"
    /\ LET user_id == UserId(session)
           history == MockHistory(session)
           user_msg == Strip(message)
       IN  IF user_id = 0
           THEN /\ session' = session
                /\ last' = Resp("mock", 0, "redirect_login", FALSE, FALSE)
           ELSE IF ~user_is_subscribed(user_id)
           THEN /\ session' = session
                /\ last' = Resp("mock", user_id, "subscribe_to_unlock", TRUE,
                                FALSE)
           ELSE IF method = "POST" /\ user_msg # <<>>
           THEN /\ Len(history) + 2 <= MaxHistory
                /\ session' = Set(session, "mock_interview_history",
                       Append(Append(history, UserEntry(user_msg)),
                              IF ~GROQ_API_KEY THEN NOT_CONFIGURED
                              ELSE IF raised THEN AI_ERROR ELSE AI_REPLY))
                /\ last' = Resp("mock", user_id, "page", FALSE, GROQ_API_KEY)
           ELSE /\ session' = session
                /\ last' = Resp("mock", user_id, "page", FALSE, FALSE)
    /\ UNCHANGED <<db, GROQ_API_KEY, pc, local, end_called>>

-----------------------------------------------------------------------------
Request(t) ==
    \/ \E e \in Emails, p \in SignupPasswords : Signup(t, e, p)
    \/ \E e \in Emails, p \in LoginPasswords : Login(t, e, p)
    \/ Logout(t)
    \/ \E m \in Methods : Subscribe(t, m)
    \/ Dashboard(t)
    \/ \E m \in Methods, r \in BOOLEAN : ChatbotNoUser(t, m, r)
    \/ \E m \in Methods, r \in BOOLEAN : ChatbotStorageError(t, m, r)
    \/ \E m \in Methods : ChatbotReset(t, m)
    \/ ChatbotGet(t)
    \/ \E msg \in Messages : ChatbotPostLocked(t, msg)
    \/ \E msg \in Messages : ChatbotPostEmpty(t, msg)
    \/ \E msg \in Messages : ChatbotPostNoKey(t, msg)
    \/ \E msg \in Messages : ChatbotPostCall(t, msg)
    \/ \E raised \in BOOLEAN : ChatbotPostReply(t, raised)
    \/ EndNoUser(t)
    \/ EndStorageError(t)
    \/ EndRead(t)
    \/ EndCommit(t)
    \/ \E m \in Methods, msg \in Messages, raised \in BOOLEAN :
           MockInterview(t, m, msg, raised)

\* one request at a time
Next == \E t \in Worker : Request(t)

Spec == Init /\ [][Next]_vars

\* The requests that read or write ai_usage or the conversation, and the ones
\* that open and close a login.  subscribe(), dashboard() and
\* mock_interview() touch neither.
RaceRequest(t) ==
    \/ \E e \in Emails, p \in SignupPasswords : Signup(t, e, p)
    \/ \E e \in Emails, p \in LoginPasswords : Login(t, e, p)
    \/ Logout(t)
    \/ \E m \in Methods, r \in BOOLEAN : ChatbotNoUser(t, m, r)
    \/ \E m \in Methods, r \in BOOLEAN : ChatbotStorageError(t, m, r)
    \/ \E m \in Methods : ChatbotReset(t, m)
    \/ ChatbotGet(t)
    \/ \E msg \in Messages : ChatbotPostLocked(t, msg)
    \/ \E msg \in Messages : ChatbotPostEmpty(t, msg)
    \/ \E msg \in Messages : ChatbotPostNoKey(t, msg)
    \/ \E msg \in Messages : ChatbotPostCall(t, msg)
    \/ \E raised \in BOOLEAN : ChatbotPostReply(t, raised)
    \/ EndNoUser(t)
    \/ EndStorageError(t)
    \/ EndRead(t)
    \/ EndCommit(t)

\* two browser tabs on one cookie, a threaded server: two requests in flight
NextRace == \E t \in Tabs : RaceRequest(t)

SpecRace == Init /\ [][NextRace]_vars

-----------------------------------------------------------------------------
(* Properties *)

UserIds == 1..Cardinality(Emails)

RecordsOf(table, user_id) == {r \in table : r.user_id = user_id}

Consumed(table, user_id) ==
    \E r \in table : r.user_id = user_id /\ r.ai_used = 1

GateSteps == {"chatbot_get", "chatbot_post", "chatbot_reset", "chatbot_call"}

\* the step taken is tab t's end_chatbot() leaving its commit
EndCommits(t) == pc[t] = "read" /\ pc'[t] = "idle"

\* C1: once a user's usage record is consumed (ai_used = 1), the gate check
\* for that user answers locked after every further step: no request
\* returns the user to the unlocked state.
C1_LockIsTerminal ==
    [][\A u \in UserIds :
          Consumed(ai_usage, u) => Locked(Usage(u))']_vars

\* a locked user has since sent a subscribe POST
C1_Witness ==
    /\ last.op = "subscribe"
    /\ last.status = "redirect_dashboard"
    /\ Locked(Usage(last.user_id))

\* C2: the gate check of a chatbot request answers locked exactly when a
\* usage record of the user exists with its consumed flag set; with no
\* record it answers not locked.
C2_GateIffConsumedRecord ==
    (last.op \in GateSteps /\ last.status \in {"page", "pending"})
        => /\ last.locked <=> Consumed(ai_usage, last.user_id)
           /\ RecordsOf(ai_usage, last.user_id) = {} => ~last.locked

\* a gate check answered locked for one user while another user has no record
C2_Witness ==
    /\ last.op = "chatbot_get"
    /\ last.status = "page"
    /\ last.locked
    /\ \E u \in users : RecordsOf(ai_usage, u.id) = {}

\* C3: a chat POST whose gate check answered locked makes no
\* chat-completion call; it appends the static refusal, once, to the
\* conversation and does not append the submitted message.
C3_LockedPostRefused ==
    [][(last'.op = "chatbot_post" /\ last'.status = "page" /\ last'.locked)
          => /\ ~last'.llm
             /\ pc' = pc
             /\ History(session') = Append(History(session), REFUSAL)]_vars

\* a locked POST was answered
C3_Witness ==
    /\ last.op = "chatbot_post"
    /\ last.locked
    /\ Len(History(session)) >= 1
    /\ History(session)[Len(History(session))] = REFUSAL

\* C4: a user for whom end_chatbot() was never called is not locked and
\* every gate check for that user answers not locked, after any number of
\* chat exchanges.
C4_NeverEndedIsGranted ==
    /\ \A u \in UserIds \ end_called : ~Locked(Usage(u))
    /\ (last.op \in GateSteps /\ last.status \in {"page", "pending"}
            /\ last.user_id \notin end_called)
          => ~last.locked

\* an exchange was answered for a user for whom end was never called
C4_Witness ==
    /\ last.op = "chatbot_post"
    /\ last.llm
    /\ last.user_id \notin end_called
    /\ Len(History(session)) >= 2

\* C5: every end_chatbot() that commits leaves the user locked; one whose
\* query already found the consumed record (a second call) commits without
\* error and leaves the usage table as it was.
C5_EndIdempotent ==
    [][\A t \in Tabs, u \in UserIds :
          (/\ EndCommits(t)
           /\ u = local[t].user_id
           /\ last'.status = "redirect_chatbot" \/ Locked(local[t].found))
          => /\ last'.status = "redirect_chatbot"
             /\ Locked(Usage(u))'
             /\ Locked(local[t].found) => ai_usage' = ai_usage]_vars

\* a second end_chatbot() of the same user has committed
C5_Witness ==
    /\ last.op = "end"
    /\ last.status = "redirect_chatbot"
    /\ last.locked
    /\ Locked(Usage(last.user_id))

\* C6: an end_chatbot() commit for one user leaves every other user's usage
\* records and gate answer unchanged.
C6_Isolation ==
    [][\A t \in Tabs : EndCommits(t) =>
          \A b \in UserIds \ {local[t].user_id} :
             /\ RecordsOf(ai_usage', b) = RecordsOf(ai_usage, b)
             /\ Locked(Usage(b))' = Locked(Usage(b))]_vars

\* one user ended the chat while another account stayed unlocked
C6_Witness ==
    /\ last.op = "end"
    /\ last.status = "redirect_chatbot"
    /\ \E b \in users : b.id # last.user_id /\ ~Locked(Usage(b.id))

\* C7: the usage table never holds two records of one user, also when
\* end_chatbot() requests of one user interleave.
C7_OneRecordPerUser ==
    \A u \in UserIds : Cardinality(RecordsOf(ai_usage, u)) <= 1

\* two end_chatbot() of one user raced: the later commit was turned down
C7_Witness ==
    /\ last.op = "end"
    /\ last.status = "integrity_error"
    /\ Cardinality(RecordsOf(ai_usage, last.user_id)) = 1

\* C8: an end_chatbot() whose query found no record completes without a
\* storage error and leaves the user locked, also when another
\* end_chatbot() of the same user commits in between.
C8_RaceCompletes ==
    [][\A t \in Tabs, u \in UserIds :
          (EndCommits(t) /\ u = local[t].user_id /\ local[t].found = {})
          => /\ last'.status = "redirect_chatbot"
             /\ Locked(Usage(u))']_vars

\* C9: only the commit of end_chatbot() changes the usage table; with every
\* other step the table, and so every user's lock, stays as it was.
C9_OnlyEndWrites ==
    [][(ai_usage' # ai_usage
           \/ \E u \in UserIds : Locked(Usage(u))' # Locked(Usage(u)))
          => /\ last'.op = "end"
             /\ \E t \in Tabs : EndCommits(t)]_vars

\* a granted mock interview ran while a usage record exists
C9_Witness ==
    /\ last.op = "mock"
    /\ last.llm
    /\ ai_usage # {}

\* C10: no chatbot step changes the usage table, and a user's first record
\* appears only with the commit of an end_chatbot() of that user.
C10_LazyRecord ==
    [][/\ (last'.op \in GateSteps => ai_usage' = ai_usage)
       /\ \A u \in UserIds :
             (RecordsOf(ai_usage, u) = {} /\ RecordsOf(ai_usage', u) # {})
                => /\ last'.op = "end"
                   /\ last'.user_id = u
                   /\ \E t \in Tabs : EndCommits(t)]_vars

\* a chat exchange was answered for a user who has no usage record
C10_Witness ==
    /\ last.op = "chatbot_post"
    /\ last.llm
    /\ RecordsOf(ai_usage, last.user_id) = {}


\* C11: when the usage query of chatbot() or end_chatbot() fails, the
\* request ends in the error: it makes no chat-completion call, starts
\* none, renders no answer, and changes no usage record and no session
\* entry.
C11_LookupFailurePropagates ==
    [][(last'.op \in GateSteps \cup {"end"}
           /\ last'.status = "storage_error")
          => /\ ~last'.llm
             /\ ~last'.locked
             /\ pc' = pc
             /\ ai_usage' = ai_usage
             /\ session' = session]_vars

\* the query of a chat POST failed in the middle of a conversation
C11_Witness ==
    /\ last.op = "chatbot_post"
    /\ last.status = "storage_error"
    /\ Len(History(session)) >= 2


\* C12: a /chatbot or /chatbot/end request whose session carries no user id
\* is answered with the redirect to the login page whatever the storage
\* does (the usage query is never reached, so it cannot fail), makes no
\* chat-completion call and leaves the tables and the session unchanged.
C12_NoUserRejected ==
    [][(/\ last'.op \in GateSteps \cup {"end", "end_read"}
        /\ UserId(session) = 0
        /\ \A t \in Tabs : pc[t] = "idle")
          => /\ last'.status = "redirect_login"
             /\ ~last'.llm
             /\ pc' = pc
             /\ db' = db
             /\ session' = session
             /\ end_called' = end_called]_vars

\* a chat POST without a login was turned away while usage records exist
C12_Witness ==
    /\ last.op = "chatbot_post"
    /\ last.status = "redirect_login"
    /\ UserId(session) = 0
    /\ ai_usage # {}


\* C13: a chat-completion call of chatbot() is made in a request whose gate
\* check answered not locked, and is not started once an end_chatbot() of
\* that user has committed, also when the two requests interleave.
C13_NoCallAfterEnd ==
    [][\A t \in Tabs, u \in UserIds :
          (pc[t] = "calling" /\ pc'[t] = "idle" /\ u = local[t].user_id)
          => /\ ~Locked(local[t].found)
             /\ ~Consumed(ai_usage, u)]_vars


\* C14: login and logout leave the usage table alone, and a chatbot request
\* of a user whose record is consumed answers locked also when its session
\* carries no "ai_used" flag, as after a logout and a new login.
C14_LockSurvivesRelogin ==
    [][/\ last'.op \in {"login", "logout"} => ai_usage' = ai_usage
       /\ (/\ last'.op \in GateSteps
           /\ last'.status = "page"
           /\ \A t \in Tabs : pc[t] = "idle"
           /\ Consumed(ai_usage, last'.user_id)
           /\ ~Has(session, "ai_used"))
          => last'.locked]_vars

\* a locked page was rendered in a session built by a login after the end
C14_Witness ==
    /\ last.op = "chatbot_get"
    /\ last.status = "page"
    /\ last.locked
    /\ ~Has(session, "ai_used")
    /\ Has(session, "first_time")


\* every entry is a user or an assistant entry and every user entry is
\* directly followed by an assistant entry
WellFormed(history) ==
    \A i \in 1..Len(history) :
        /\ history[i].role \in {"user", "assistant"}
        /\ history[i].role = "user"
              => i < Len(history) /\ history[i + 1].role = "assistant"

\* C15: the session's conversation is always well formed, and an unlocked
\* chat POST with a non-empty message appends one user entry, the stripped
\* message, and then one assistant entry.
C15_UserThenAssistant ==
    [][/\ WellFormed(History(session'))
       /\ \A t \in Tabs :
             /\ (pc[t] = "idle" /\ pc'[t] = "calling")
                   => \E m \in Messages :
                         /\ Strip(m) # <<>>
                         /\ History(local'[t].sess) =
                               Append(History(session), UserEntry(Strip(m)))
             /\ (pc[t] = "calling" /\ pc'[t] = "idle")
                   => \E a \in {AI_REPLY, AI_ERROR} :
                         History(session') = Append(History(local[t].sess), a)
       /\ (/\ last'.op = "chatbot_post"
           /\ pc' = pc
           /\ ~last'.locked
           /\ History(session') # History(session))
             => \E m \in Messages :
                   /\ Strip(m) # <<>>
                   /\ History(session') =
                         History(session) \o
                            <<UserEntry(Strip(m)), NOT_CONFIGURED>>]_vars

\* an answered exchange is in the session
C15_Witness ==
    /\ Len(History(session)) >= 2
    /\ History(session)[1] = UserEntry(<<"a">>)
    /\ History(session)[2] = AI_REPLY


\* C16: a locked user who activates a subscription can chat again: a chat
\* POST of a user with an active subscription is never answered with the
\* refusal.
C16_SubscriptionUnlocks ==
    (/\ last.op = "chatbot_post"
     /\ last.status = "page"
     /\ last.locked)
       => ~user_is_subscribed(last.user_id)


\* C17: every usage record that exists has ai_used = 1, so for every user
\* "a record exists" and "the gate check answers locked" are equivalent.
C17_RecordMeansConsumed ==
    /\ \A r \in ai_usage : r.ai_used = 1
    /\ \A u \in UserIds :
          RecordsOf(ai_usage, u) # {} <=> Locked(Usage(u))

\* two users have a record and the last end_chatbot() found its row
C17_Witness ==
    /\ Cardinality(ai_usage) = 2
    /\ last.op = "end"
    /\ last.status = "redirect_chatbot"
    /\ last.locked


\* C18: a chat POST whose completion call cannot be made or raises still
\* ends with the page: the error text is appended as an assistant entry
\* right after the user's entry and the usage table is left as it was.
C18_FailureAbsorbed ==
    [][/\ \A t \in Tabs :
             (pc[t] = "calling" /\ pc'[t] = "idle")
                => /\ last'.status = "page"
                   /\ ai_usage' = ai_usage
                   /\ LET history == History(local[t].sess)
                      IN  /\ history # <<>>
                          /\ history[Len(history)].role = "user"
                          /\ History(session') \in
                                {Append(history, AI_REPLY),
                                 Append(history, AI_ERROR)}
       /\ (/\ last'.op = "chatbot_post"
           /\ last'.status # "storage_error"
           /\ pc' = pc
           /\ ~GROQ_API_KEY
           /\ UserId(session) # 0
           /\ ~Locked(Usage(UserId(session))))
             => /\ last'.status = "page"
                /\ ~last'.llm
                /\ ai_usage' = ai_usage
                /\ \/ session' = session
                   \/ \E m \in Messages :
                         /\ Strip(m) # <<>>
                         /\ History(session') =
                               History(session) \o
                                  <<UserEntry(Strip(m)), NOT_CONFIGURED>>]_vars

\* the completion call raised and its error text closes the conversation
C18_Witness ==
    /\ last.op = "chatbot_post"
    /\ last.llm
    /\ last.status = "page"
    /\ Len(History(session)) >= 2
    /\ History(session)[Len(History(session))] = AI_ERROR
    /\ History(session)[Len(History(session)) - 1].role = "user"


\* C19: a /chatbot request with reset=1, GET or POST, sets the session's
\* conversation to the empty list and changes nothing else: no completion
\* call is started, no entry is appended, the tables are left as they were
\* and the page shows the user's lock state as the usage table has it.
C19_ResetOnlyClears ==
    [][(last'.op = "chatbot_reset" /\ last'.status = "page")
          => /\ session' = Set(session, "ai_history", <<>>)
             /\ ~last'.llm
             /\ pc' = pc
             /\ local' = local
             /\ db' = db
             /\ end_called' = end_called
             /\ last'.locked <=> Consumed(ai_usage, last'.user_id)]_vars

\* a locked user has cleared the chat and is still locked
C19_Witness ==
    /\ last.op = "chatbot_reset"
    /\ last.status = "page"
    /\ last.locked
    /\ Consumed(ai_usage, last.user_id)
    /\ Has(session, "ai_history")
    /\ History(session) = <<>>


\* C20: an end_chatbot() that commits leaves the user locked and the
\* session's conversation empty, and from then on, while that user stays
\* logged in, a step changes the conversation only by emptying it or by
\* appending the static refusal.
C20_OnlyRefusalsAfterEnd ==
    [][/\ \A t \in Tabs :
             (EndCommits(t) /\ last'.status = "redirect_chatbot")
                => /\ History(session') = <<>>
                   /\ Consumed(ai_usage', last'.user_id)
       /\ \A u \in UserIds :
             (/\ Consumed(ai_usage, u)
              /\ UserId(session) = u
              /\ UserId(session') = u)
                => History(session') \in
                      {History(session), <<>>,
                       Append(History(session), REFUSAL)}]_vars


\* C21: an unlocked chat POST either carries a message that is not empty
\* once stripped, which becomes its user entry, or it starts no completion
\* call and leaves the conversation and everything else as it was; no user
\* entry with an empty content is ever stored.
C21_EmptyMessageIgnored ==
    [][/\ \A i \in 1..Len(History(session')) :
             History(session')[i].role = "user"
                => History(session')[i].content # <<>>
       /\ (/\ last'.op \in {"chatbot_post", "chatbot_call"}
           /\ last'.status \in {"page", "pending"}
           /\ ~last'.locked
           /\ \A t \in Tabs : ~(pc[t] = "calling" /\ pc'[t] = "idle"))
             => \/ /\ ~last'.llm
                   /\ pc' = pc
                   /\ local' = local
                   /\ db' = db
                   /\ session' = Set(session, "ai_history", History(session))
                \/ \E m \in Messages :
                      /\ Strip(m) # <<>>
                      /\ \/ History(session') =
                               History(session) \o
                                  <<UserEntry(Strip(m)), NOT_CONFIGURED>>
                         \/ \E t \in Tabs :
                               /\ pc[t] = "idle"
                               /\ pc'[t] = "calling"
                               /\ History(local'[t].sess) =
                                     Append(History(session),
                                            UserEntry(Strip(m)))]_vars

\* with a client configured, an unlocked POST ended without a completion
\* call and the earlier exchange is still in the session
C21_Witness ==
    /\ last.op = "chatbot_post"
    /\ last.status = "page"
    /\ ~last.locked
    /\ ~last.llm
    /\ GROQ_API_KEY
    /\ ~Consumed(ai_usage, last.user_id)
    /\ Len(History(session)) = 2
    /\ History(session)[2] = AI_REPLY


\* C22: a mock-interview request makes its completion call only for a
\* logged-in user with an active subscription; whether the request is
\* granted depends on the subscription alone, whatever the user's usage
\* record is, and neither mock_interview() nor subscribe() writes the usage
\* table.
C22_MockGateIsSubscription ==
    [][/\ last'.op = "mock"
          => /\ last'.llm
                => UserId(session) # 0 /\ user_is_subscribed(UserId(session))
             /\ last'.status = "page"
                <=> UserId(session) # 0 /\ user_is_subscribed(UserId(session))
             /\ last'.status = "subscribe_to_unlock"
                <=> UserId(session) # 0 /\ ~user_is_subscribed(UserId(session))
             /\ db' = db
       /\ last'.op = "subscribe" => ai_usage' = ai_usage]_vars

\* a subscriber whose free chat is used up got a mock-interview answer
C22_Witness ==
    /\ last.op = "mock"
    /\ last.status = "page"
    /\ last.llm
    /\ user_is_subscribed(last.user_id)
    /\ Consumed(ai_usage, last.user_id)
    /\ Len(MockHistory(session)) = 2


\* C23: the session's user id changes only by a successful login and by
\* logout: a failed login leaves the session as it was, a successful login
\* stores user, user_id, first_time = TRUE and an empty conversation, logout
\* empties the session; a dashboard visit removes first_time and greets
\* with the welcome exactly when the flag was set, and only a successful
\* login sets the flag.
C23_SessionFollowsLogin ==
    [][/\ (last'.op = "login" /\ last'.status = "invalid_login")
             => session' = session
       /\ (last'.op = "login" /\ last'.status = "redirect_dashboard")
             => /\ \E u \in users :
                      /\ u.id = last'.user_id
                      /\ Get(session', "user", "") = u.name
                      /\ Get(session', "user_id", 0) = u.id
                /\ Get(session', "first_time", FALSE)
                /\ Has(session', "ai_history")
                /\ History(session') = <<>>
       /\ last'.op = "logout" => session' = EmptyDict
       /\ UserId(session') # UserId(session)
             => \/ last'.op = "login" /\ last'.status = "redirect_dashboard"
                \/ last'.op = "logout"
       /\ (last'.op = "dashboard" /\ Has(session, "user_id"))
             => /\ ~Has(session', "first_time")
                /\ last'.status = "welcome"
                      <=> Get(session, "first_time", FALSE)
       /\ (~Has(session, "first_time") /\ Has(session', "first_time"))
             => last'.op = "login" /\ last'.status = "redirect_dashboard"]_vars

====
